---- MODULE Spec2Model ----
(***************************************************************************)
(* fftpeg: the download / dedup / organize pipeline.                       *)
(*                                                                         *)
(*   src/src/utils/database.py         Database (sqlite store)             *)
(*   src/src/utils/downloader.py       VideoDownloader.download            *)
(*   src/src/utils/symlink_manager.py  SymlinkManager (by-source/tag/date) *)
(*   src/src/config/settings.py        Config (rules, flags)               *)
(*                                                                         *)
(* Every sqlite statement and every filesystem call is one atomic step;    *)
(* a download invocation is a sequence of such steps, and invocations of   *)
(* different callers interleave between them (the code takes no lock).     *)
(***************************************************************************)
EXTENDS Integers, Sequences, FiniteSets, TLC

VARIABLES
    downloads,   \* rows of table downloads (database.py 43-61)
    tags,        \* rows of table tags (database.py 64-69)
    file_tags,   \* rows of table file_tags (database.py 72-82)
    files,       \* the downloads directory: file name -> content, or Absent
    links,       \* the symlink forest: link path -> entry (symlink_manager.py 19-21)
    dirs,        \* the key directories <namespace>/<key> of the forest
    config,      \* Config.config (settings.py 67)
    clock,       \* the date datetime.now() reports
    inv,         \* the download invocation of each caller: its locals and result
    calls,       \* number of download invocations started
    org,         \* the last direct SymlinkManager call and what it returned
    dbcall,      \* the direct Database call of each caller: its locals and result
    auto_tag_rules, \* rows of table auto_tag_rules (database.py 85-93)
    settings,    \* module settings.py: DEFAULT_CONFIG, the config file, the last Config call
    info         \* what the last get_video_info call returned

vars == <<downloads, tags, file_tags, files, links, dirs, config, clock, inv, calls, org,
          dbcall, auto_tag_rules, settings, info>>

-----------------------------------------------------------------------------
(* Bounds of the model *)

MaxCalls == 3
MaxOrgOps == 3
MaxEnv == 1

-----------------------------------------------------------------------------
(* The universe: callers, URLs and what the remote side serves for them *)

Procs == {"p1", "p2"}

None == "None"
Absent == "absent"

\* the download(url, additional_tags, custom_name) calls the callers make
Requests ==
    { [url |-> "https://youtube.com/watch?v=abc", custom_name |-> None,
       additional_tags |-> <<"demo">>],
      [url |-> "https://youtu.be/abc", custom_name |-> None,
       additional_tags |-> <<>>],
      [url |-> "https://vimeo.com/123", custom_name |-> None,
       additional_tags |-> <<>>],
      [url |-> "https://youtube.com/watch?v=xyz", custom_name |-> None,
       additional_tags |-> <<>>],
      [url |-> "https://youtube.com/watch?v=abc", custom_name |-> "clip",
       additional_tags |-> <<>>] }

\* the URLs callers pass
Urls ==
    {"https://youtube.com/watch?v=abc",
     "https://youtu.be/abc",
     "https://vimeo.com/123",
     "https://youtube.com/watch?v=xyz",
     "HTTPS://WWW.YouTube.COM/watch?v=ABC",
     "https://example.org/video/1",
     "https://example.org/v?ref=youtube.com"}

\* the domain names _detect_source looks for
Domains ==
    {"youtube.com", "youtu.be", "twitter.com", "x.com",
     "instagram.com", "vimeo.com", "tiktok.com", "twitch.tv",
     "reddit.com", "redd.it"}

\* the characters of a string
Chars(s) ==
    CASE s = "https://youtube.com/watch?v=abc" ->
          <<"h", "t", "t", "p", "s", ":", "/", "/", "y", "o", "u", "t", "u",
          "b", "e", ".", "c", "o", "m", "/", "w", "a", "t", "c", "h", "?",
          "v", "=", "a", "b", "c">>
      [] s = "https://youtu.be/abc" ->
          <<"h", "t", "t", "p", "s", ":", "/", "/", "y", "o", "u", "t", "u",
          ".", "b", "e", "/", "a", "b", "c">>
      [] s = "https://vimeo.com/123" ->
          <<"h", "t", "t", "p", "s", ":", "/", "/", "v", "i", "m", "e", "o",
          ".", "c", "o", "m", "/", "1", "2", "3">>
      [] s = "https://youtube.com/watch?v=xyz" ->
          <<"h", "t", "t", "p", "s", ":", "/", "/", "y", "o", "u", "t", "u",
          "b", "e", ".", "c", "o", "m", "/", "w", "a", "t", "c", "h", "?",
          "v", "=", "x", "y", "z">>
      [] s = "HTTPS://WWW.YouTube.COM/watch?v=ABC" ->
          <<"H", "T", "T", "P", "S", ":", "/", "/", "W", "W", "W", ".", "Y",
          "o", "u", "T", "u", "b", "e", ".", "C", "O", "M", "/", "w", "a",
          "t", "c", "h", "?", "v", "=", "A", "B", "C">>
      [] s = "https://example.org/video/1" ->
          <<"h", "t", "t", "p", "s", ":", "/", "/", "e", "x", "a", "m", "p",
          "l", "e", ".", "o", "r", "g", "/", "v", "i", "d", "e", "o", "/",
          "1">>
      [] s = "https://example.org/v?ref=youtube.com" ->
          <<"h", "t", "t", "p", "s", ":", "/", "/", "e", "x", "a", "m", "p",
          "l", "e", ".", "o", "r", "g", "/", "v", "?", "r", "e", "f", "=",
          "y", "o", "u", "t", "u", "b", "e", ".", "c", "o", "m">>
      [] s = "youtube.com" ->
          <<"y", "o", "u", "t", "u", "b", "e", ".", "c", "o", "m">>
      [] s = "youtu.be" ->
          <<"y", "o", "u", "t", "u", ".", "b", "e">>
      [] s = "twitter.com" ->
          <<"t", "w", "i", "t", "t", "e", "r", ".", "c", "o", "m">>
      [] s = "x.com" ->
          <<"x", ".", "c", "o", "m">>
      [] s = "instagram.com" ->
          <<"i", "n", "s", "t", "a", "g", "r", "a", "m", ".", "c", "o", "m">>
      [] s = "vimeo.com" ->
          <<"v", "i", "m", "e", "o", ".", "c", "o", "m">>
      [] s = "tiktok.com" ->
          <<"t", "i", "k", "t", "o", "k", ".", "c", "o", "m">>
      [] s = "twitch.tv" ->
          <<"t", "w", "i", "t", "c", "h", ".", "t", "v">>
      [] s = "reddit.com" ->
          <<"r", "e", "d", "d", "i", "t", ".", "c", "o", "m">>
      [] s = "redd.it" ->
          <<"r", "e", "d", "d", ".", "i", "t">>
      [] OTHER -> <<>>

\* str.lower(), on the letters that occur
LowerChar(c) ==
    CASE c = "A" -> "a"
      [] c = "B" -> "b"
      [] c = "C" -> "c"
      [] c = "H" -> "h"
      [] c = "M" -> "m"
      [] c = "O" -> "o"
      [] c = "P" -> "p"
      [] c = "S" -> "s"
      [] c = "T" -> "t"
      [] c = "W" -> "w"
      [] c = "Y" -> "y"
      [] OTHER -> c

Lower(text) == [i \in 1..Len(text) |-> LowerChar(text[i])]

\* pat in text
Contains(text, pat) ==
    \E i \in 1..(Len(text) - Len(pat) + 1) : SubSeq(text, i, i + Len(pat) - 1) = pat

\* for every URL, the domain names that occur in url.lower()
Occurrences ==
    [u \in Urls |-> {d \in Domains : Contains(Lower(Chars(u)), Chars(d))}]

\* the domain substrings found in url.lower()
UrlContains(url) == Occurrences[url]

\* the bytes the remote side serves for a URL
RemoteContent(url) ==
    CASE url = "https://youtube.com/watch?v=xyz" -> "bytesB"
      [] OTHER -> "bytesA"

\* the title the remote side reports for a URL
RemoteTitle(url) ==
    CASE url = "https://vimeo.com/123" -> "reupload"
      [] OTHER -> "video"

FileNames == {"video.mp4", "reupload.mp4", "clip.mp4"}

-----------------------------------------------------------------------------
(* Config *)

DEFAULT_CONFIG ==
    [ organize_by_source |-> TRUE,
      organize_by_tag |-> TRUE,
      organize_by_date |-> TRUE,
      source_formats |->
        [ youtube |-> [format |-> "bestvideo[height<=1080]+bestaudio/best[height<=1080]",
                       merge_output_format |-> "mp4"],
          twitter |-> [format |-> "best"],
          instagram |-> [format |-> "best[height<=720]"],
          vimeo |-> [format |-> "best"],
          tiktok |-> [format |-> "best"],
          twitch |-> [format |-> "best"],
          reddit |-> [format |-> "best"],
          default |-> [format |-> "best"] ],
      auto_tag_rules |-> <<
        [source |-> "youtube", tag |-> "youtube", enabled |-> TRUE],
        [source |-> "twitter", tag |-> "twitter", enabled |-> TRUE],
        [source |-> "instagram", tag |-> "instagram", enabled |-> TRUE],
        [source |-> "vimeo", tag |-> "vimeo", enabled |-> TRUE],
        [source |-> "tiktok", tag |-> "tiktok", enabled |-> TRUE],
        [source |-> "twitch", tag |-> "twitch", enabled |-> TRUE],
        [source |-> "reddit", tag |-> "reddit", enabled |-> TRUE] >> ]

\* the config file: missing, not valid JSON, or the JSON of a configuration
FileMissing == [state |-> "missing", content |-> <<>>]

FileInvalid == [state |-> "invalid", content |-> <<>>]

FileJson(c) == [state |-> "json", content |-> <<c>>]

\* an installation in use: the Config instance was loaded from its file, so
\* it shares no object with DEFAULT_CONFIG; defaults is the value the module's
\* DEFAULT_CONFIG dict has now, shared the keys whose value in the instance
\* is the very object DEFAULT_CONFIG holds
Installed ==
    [has_config |-> TRUE, defaults |-> DEFAULT_CONFIG, shared |-> {},
     file |-> FileJson(DEFAULT_CONFIG), op |-> "none", key |-> <<>>,
     found |-> "none", raised |-> "none", n |-> 0, nenv |-> 0]

\* Config.get_auto_tag_rules
ConfigGetAutoTagRules == SelectSeq(config.auto_tag_rules, LAMBDA r : r.enabled)

-----------------------------------------------------------------------------
(* Database *)

\* sqlite AUTOINCREMENT: one more than the largest id ever used (no row is
\* ever deleted by the code)
NextRowId(table) == Cardinality(table) + 1

\* cursor.fetchone() of a SELECT without ORDER BY: no row, or any matching row
FetchOne(rows) == IF rows = {} THEN {{}} ELSE {{r} : r \in rows}

\* Database.check_url_exists: the rows SELECT * FROM downloads WHERE url = ?
CheckUrlExists_Never(url) == {}

CheckUrlExists(url) == {r \in downloads : r.url = url}

\* Database.check_hash_exists: the rows SELECT * FROM downloads WHERE hash = ?
CheckHashExists_Never(file_hash) == {}

CheckHashExists(file_hash) == {r \in downloads : r.hash = file_hash}

\* the UNIQUE constraints of table downloads: url TEXT UNIQUE, filepath TEXT
\* UNIQUE (hash is indexed, not unique)
UniqueViolation_WithHash(url, filepath, file_hash) ==
    \E r \in downloads : r.url = url \/ r.filepath = filepath \/ r.hash = file_hash

UniqueViolation_None(url, filepath, file_hash) == FALSE

UniqueViolation(url, filepath, file_hash) ==
    \E r \in downloads : r.url = url \/ r.filepath = filepath

\* Database.add_download: the row the INSERT adds
NewDownload(url, source, filepath, file_hash) ==
    [id |-> NextRowId(downloads), url |-> url, source |-> source,
     filepath |-> filepath, hash |-> file_hash]

\* Database.get_all_sources
GetAllSources == {r.source : r \in downloads}

-----------------------------------------------------------------------------
(* VideoDownloader helpers *)

\* VideoDownloader._calculate_file_hash: SHA-256 of the bytes (collision free)
CalculateFileHash(content) == <<"sha256", content>>

NoHash == <<>>

\* VideoDownloader._detect_source
DetectSource(url) ==
    LET has(d) == d \in UrlContains(url) IN
    IF has("youtube.com") \/ has("youtu.be") THEN "youtube"
    ELSE IF has("twitter.com") \/ has("x.com") THEN "twitter"
    ELSE IF has("instagram.com") THEN "instagram"
    ELSE IF has("vimeo.com") THEN "vimeo"
    ELSE IF has("tiktok.com") THEN "tiktok"
    ELSE IF has("twitch.tv") THEN "twitch"
    ELSE IF has("reddit.com") \/ has("redd.it") THEN "reddit"
    ELSE "unknown"

\* VideoDownloader._get_auto_tags
GetAutoTags(source) ==
    LET rules == SelectSeq(ConfigGetAutoTagRules, LAMBDA r : r.source = source)
    IN  [i \in 1..Len(rules) |-> rules[i].tag]

\* the file yt-dlp writes for the output template: <custom_name>.<ext> when a
\* custom name is given, <title>.<ext> otherwise
OutputPath(url, custom_name) ==
    CASE custom_name = "clip" -> "clip.mp4"
      [] RemoteTitle(url) = "video" -> "video.mp4"
      [] OTHER -> "reupload.mp4"

-----------------------------------------------------------------------------
(* Paths.  A path is the sequence of its components below the base           *)
(* directory; real files live in downloads/, links in by-*/<key>/.           *)

Namespaces == {"by-source", "by-tag", "by-date"}

SourceKeys == {"youtube", "vimeo", "unknown"}

TagKeys == {"youtube", "vimeo", "demo"}

DateKeys == {"2024-03", "2024-04"}

KeysOf(ns) ==
    CASE ns = "by-source" -> SourceKeys
      [] ns = "by-tag" -> TagKeys
      [] OTHER -> DateKeys

KeyDirs == UNION {{<<ns, k>> : k \in KeysOf(ns)} : ns \in Namespaces}

LinkPaths == {<<kd[1], kd[2], n>> : kd \in KeyDirs, n \in FileNames}

Parent(path) == SubSeq(path, 1, Len(path) - 1)

Name(path) == path[Len(path)]

\* config.get_download_path() / <file name>
DownloadFile(name) == <<"downloads", name>>

\* os.path.relpath(path, start)
RelPath(path, start) ==
    LET m == IF Len(path) < Len(start) THEN Len(path) ELSE Len(start)
        c == CHOOSE i \in 0..m :
                /\ \A j \in 1..i : path[j] = start[j]
                /\ (i = m \/ path[i + 1] # start[i + 1])
    IN  [k \in 1..(Len(start) - c) |-> ".."] \o SubSeq(path, c + 1, Len(path))

\* what the kernel resolves a relative link target to, from the link's directory
RECURSIVE Resolve(_, _)
Resolve(dir, rel) ==
    IF rel = <<>> THEN dir
    ELSE IF Head(rel) = ".." THEN Resolve(Parent(dir), Tail(rel))
    ELSE Resolve(Append(dir, Head(rel)), Tail(rel))

NoEntry == [kind |-> "absent", target |-> <<>>]

Symlink(target) == [kind |-> "symlink", target |-> target]

RegularFile == [kind |-> "file", target |-> <<>>]

Directory == [kind |-> "dir", target |-> <<>>]

\* the path a link entry resolves to
LinkTarget(link) == Resolve(Parent(link), links[link].target)

-----------------------------------------------------------------------------
(* SymlinkManager.  fs is the forest [links, dirs] an operation starts from; *)
(* each operation yields the forest it leaves and what it returns.           *)

\* a create_symlink without the is_symlink()/unlink() branch: symlink_to on an
\* existing link raises FileExistsError
CreateSymlink_NoReplace(fs, source, link) ==
    IF fs.dirs[Parent(link)] = "file"
    THEN [ok |-> FALSE, links |-> fs.links, dirs |-> fs.dirs]
    ELSE LET d == [fs.dirs EXCEPT ![Parent(link)] = "dir"] IN
         IF fs.links[link].kind # "absent"
         THEN [ok |-> FALSE, links |-> fs.links, dirs |-> d]
         ELSE [ok |-> TRUE, dirs |-> d,
               links |-> [fs.links EXCEPT ![link] = Symlink(RelPath(source, Parent(link)))]]

\* a create_symlink that removes whatever is at the link path
CreateSymlink_Overwrite(fs, source, link) ==
    IF fs.dirs[Parent(link)] = "file"
    THEN [ok |-> FALSE, links |-> fs.links, dirs |-> fs.dirs]
    ELSE [ok |-> TRUE, dirs |-> [fs.dirs EXCEPT ![Parent(link)] = "dir"],
          links |-> [fs.links EXCEPT ![link] = Symlink(RelPath(source, Parent(link)))]]

\* SymlinkManager.create_symlink
CreateSymlink(fs, source, link) ==
    IF fs.dirs[Parent(link)] = "file"
    THEN \* link.parent.mkdir: FileExistsError, an OSError
         [ok |-> FALSE, links |-> fs.links, dirs |-> fs.dirs]
    ELSE LET d == [fs.dirs EXCEPT ![Parent(link)] = "dir"] IN
         IF fs.links[link].kind \notin {"symlink", "absent"}
         THEN \* exists and is not a symlink
              [ok |-> FALSE, links |-> fs.links, dirs |-> d]
         ELSE \* unlink an existing symlink, then symlink_to(relpath)
              [ok |-> TRUE, dirs |-> d,
               links |-> [fs.links EXCEPT ![link] = Symlink(RelPath(source, Parent(link)))]]

\* date.strftime("%Y-%m")
StrfYm(date) ==
    CASE date.y = 2024 /\ date.m = 3 -> "2024-03"
      [] OTHER -> "2024-04"

Dates == {[y |-> 2024, m |-> 3, d |-> 9], [y |-> 2024, m |-> 3, d |-> 30],
          [y |-> 2024, m |-> 4, d |-> 1]}

NoDate == [y |-> 0, m |-> 0, d |-> 0]

\* the link paths the three placements compute
SourceLink(filepath, source) == <<"by-source", source, Name(filepath)>>

TagLink(filepath, tag) == <<"by-tag", tag, Name(filepath)>>

DateLink(filepath, date) ==
    <<"by-date", StrfYm(IF date = NoDate THEN clock ELSE date), Name(filepath)>>

\* SymlinkManager.organize_by_source
OrganizeBySource(fs, filepath, source) ==
    CreateSymlink(fs, filepath, SourceLink(filepath, source))

\* SymlinkManager.organize_by_tag
OrganizeByTag(fs, filepath, tag) ==
    CreateSymlink(fs, filepath, TagLink(filepath, tag))

\* SymlinkManager.organize_by_date
OrganizeByDate(fs, filepath, date) ==
    CreateSymlink(fs, filepath, DateLink(filepath, date))

\* a tag loop that places the first tag only
OrganizeTags_FirstOnly(st, filepath, tagseq) ==
    IF tagseq = <<>> THEN st
    ELSE LET r == CreateSymlink(st, filepath, TagLink(filepath, Head(tagseq))) IN
         [links |-> r.links, dirs |-> r.dirs,
          results |-> Append(st.results,
              [axis |-> "tags", key |-> Head(tagseq), ok |-> r.ok])]

\* the loop over tags of organize_file
RECURSIVE OrganizeTags(_, _, _)
OrganizeTags(st, filepath, tagseq) ==
    IF tagseq = <<>> THEN st
    ELSE LET r == OrganizeByTag(st, filepath, Head(tagseq)) IN
         OrganizeTags([links |-> r.links, dirs |-> r.dirs,
                       results |-> Append(st.results,
                           [axis |-> "tags", key |-> Head(tagseq), ok |-> r.ok])],
                      filepath, Tail(tagseq))

\* an organize_file that gives up at the first placement that fails
OrganizeFile_StopAtConflict(fs, filepath, source, tagseq, date, organize_source, organize_tags, organize_date) ==
    LET bad(st) == \E i \in 1..Len(st.results) : ~st.results[i].ok
        s0 == [links |-> fs.links, dirs |-> fs.dirs, results |-> <<>>]
        s1 == IF organize_source
              THEN LET r == OrganizeBySource(s0, filepath, source) IN
                   [links |-> r.links, dirs |-> r.dirs,
                    results |-> Append(s0.results,
                        [axis |-> "source", key |-> source, ok |-> r.ok])]
              ELSE s0
        s2 == IF organize_tags /\ ~bad(s1)
              THEN OrganizeTags(s1, filepath, tagseq)
              ELSE s1
        s3 == IF organize_date /\ ~bad(s2)
              THEN LET r == OrganizeByDate(s2, filepath, date) IN
                   [links |-> r.links, dirs |-> r.dirs,
                    results |-> Append(s2.results,
                        [axis |-> "date", key |-> "date", ok |-> r.ok])]
              ELSE s2
    IN  s3

\* an organize_file that places on the three axes whatever the flags say
OrganizeFile_AllAxes(fs, filepath, source, tagseq, date, organize_source, organize_tags, organize_date) ==
    LET s0 == [links |-> fs.links, dirs |-> fs.dirs, results |-> <<>>]
        r1 == OrganizeBySource(s0, filepath, source)
        s1 == [links |-> r1.links, dirs |-> r1.dirs,
               results |-> <<[axis |-> "source", key |-> source, ok |-> r1.ok]>>]
        s2 == OrganizeTags(s1, filepath, tagseq)
        r3 == OrganizeByDate(s2, filepath, date)
    IN  [links |-> r3.links, dirs |-> r3.dirs,
         results |-> Append(s2.results, [axis |-> "date", key |-> "date", ok |-> r3.ok])]

\* SymlinkManager.organize_file: the forest it leaves and its result map, as
\* the sequence of (axis, key, ok) entries it wrote
OrganizeFile(fs, filepath, source, tagseq, date, organize_source, organize_tags, organize_date) ==
    LET s0 == [links |-> fs.links, dirs |-> fs.dirs, results |-> <<>>]
        s1 == IF organize_source
              THEN LET r == OrganizeBySource(s0, filepath, source) IN
                   [links |-> r.links, dirs |-> r.dirs,
                    results |-> Append(s0.results,
                        [axis |-> "source", key |-> source, ok |-> r.ok])]
              ELSE s0
        s2 == IF organize_tags THEN OrganizeTags(s1, filepath, tagseq) ELSE s1
        s3 == IF organize_date
              THEN LET r == OrganizeByDate(s2, filepath, date) IN
                   [links |-> r.links, dirs |-> r.dirs,
                    results |-> Append(s2.results,
                        [axis |-> "date", key |-> "date", ok |-> r.ok])]
              ELSE s2
    IN  s3

-----------------------------------------------------------------------------
(* State after construction: empty store, empty directories, default config *)

IdleInv ==
    [pc |-> "idle", seq |-> 0, url |-> None, custom |-> None, extra |-> <<>>,
     source |-> None, filepath |-> None, hash |-> NoHash, dup |-> {},
     file_id |-> 0, tags |-> <<>>, ti |-> 0, results |-> <<>>,
     status |-> "none", file |-> {}, raised |-> "none", fetches |-> 0,
     exc |-> None, message |-> <<>>]

\* no SymlinkManager call made yet
NoOrg ==
    [op |-> "none", filepath |-> <<>>, key |-> None, date |-> NoDate,
     link |-> <<>>, before |-> NoEntry, dirBefore |-> "absent", ok |-> FALSE,
     changed |-> {}, repeat |-> 0, clear |-> FALSE, oks |-> FALSE,
     tags |-> <<>>, flags |-> <<FALSE, FALSE, FALSE>>, results |-> <<>>,
     now |-> NoDate, dir |-> <<>>, removed |-> {}, ret |-> <<>>,
     ncalls |-> 0, nenv |-> 0, nfile |-> 0]

\* no direct Database call made yet
NoDbCall ==
    [op |-> "none", pc |-> "idle", name |-> None, file_id |-> 0, auto |-> FALSE,
     tag_id |-> 0, ret |-> <<>>, raised |-> FALSE, existed |-> {}, n |-> 0]

Init ==
    /\ downloads = {}
    /\ tags = {}
    /\ file_tags = {}
    /\ files = [n \in FileNames |-> Absent]
    /\ links = [l \in LinkPaths |-> NoEntry]
    /\ dirs = [k \in KeyDirs |-> "absent"]
    /\ config = DEFAULT_CONFIG
    /\ clock = [y |-> 2024, m |-> 3, d |-> 9]
    /\ inv = [p \in Procs |-> IdleInv]
    /\ calls = 0
    /\ org = NoOrg
    /\ dbcall = [p \in Procs |-> NoDbCall]
    /\ auto_tag_rules = {}
    /\ settings = Installed
    /\ info = <<>>

-----------------------------------------------------------------------------
(* VideoDownloader.download, one action per statement that touches the      *)
(* store, the disk or the fetch tool                                        *)

\* what yt-dlp's DownloadError says
Diagnostics == {"ERROR: Video unavailable", "ERROR: HTTP Error 403: Forbidden"}

\* str(e) of the exceptions the other statements raise
ExceptionText(step) ==
    CASE step \in {"hash", "unlink", "stat"} -> "No such file or directory"
      [] step = "persist" -> "UNIQUE constraint failed: downloads"
      [] OTHER -> "UNIQUE constraint failed: tags.name"

\* an error message that leaves the exception's text out
ErrorMessage_Generic(step, text) == <<"Download failed">>

\* the message of the two except clauses, as the pieces of the f-string
ErrorMessage(step, text) ==
    IF step = "fetch"
    THEN <<"Download error: ", text>>
    ELSE <<"Unexpected error: ", text>>

\* the except clauses of download: return {'status': 'error', ...}
RaiseWith(p, step, text) ==
    [inv[p] EXCEPT !.pc = "done", !.status = "error", !.raised = step,
                   !.exc = text, !.message = ErrorMessage(step, text)]

\* an exception raised by the statement of step, with the text it carries
Raise(p, step) == RaiseWith(p, step, ExceptionText(step))

\* the call and its first statement, existing = self.db.check_url_exists(url)
Start(p, url, custom_name, additional_tags) ==
    /\ inv[p].pc \in {"idle", "done"}
    /\ calls < MaxCalls
    /\ calls' = calls + 1
    /\ \E existing \in FetchOne(CheckUrlExists(url)) :
         LET fresh == [IdleInv EXCEPT !.seq = calls + 1, !.url = url,
                           !.custom = custom_name, !.extra = additional_tags]
         IN  inv' = [inv EXCEPT ![p] =
                 IF existing # {}
                 THEN [fresh EXCEPT !.pc = "done", !.status = "exists", !.file = existing]
                 ELSE [fresh EXCEPT !.pc = "fetch", !.source = DetectSource(url)]]
    /\ UNCHANGED <<downloads, tags, file_tags, files, links, dirs, config, clock, org, dbcall, auto_tag_rules, settings, info>>

\* ydl.extract_info(url, download=True): the tool fails (DownloadError), or
\* leaves the file at the template's path; over a file already there it
\* either keeps the old file or replaces it
Fetch(p) ==
    /\ inv[p].pc = "fetch"
    /\ LET path == OutputPath(inv[p].url, inv[p].custom) IN
       \E ok \in BOOLEAN, overwrite \in BOOLEAN :
         IF ~ok
         THEN /\ overwrite
              /\ \E diagnostic \in Diagnostics :
                   inv' = [inv EXCEPT ![p] =
                       [RaiseWith(p, "fetch", diagnostic) EXCEPT
                            !.fetches = inv[p].fetches + 1]]
              /\ files' = files
         ELSE /\ (files[path] = Absent => overwrite)
              /\ files' = IF overwrite
                          THEN [files EXCEPT ![path] = RemoteContent(inv[p].url)]
                          ELSE files
              /\ inv' = [inv EXCEPT ![p].pc = "hash", ![p].filepath = path,
                                    ![p].fetches = inv[p].fetches + 1]
    /\ UNCHANGED <<downloads, tags, file_tags, links, dirs, config, clock, calls, org, dbcall, auto_tag_rules, settings, info>>

\* file_hash = self._calculate_file_hash(filepath); open() raises when the
\* file is gone
HashFile(p) ==
    /\ inv[p].pc = "hash"
    /\ inv' = [inv EXCEPT ![p] =
           IF files[inv[p].filepath] = Absent
           THEN Raise(p, "hash")
           ELSE [inv[p] EXCEPT !.pc = "check_hash",
                               !.hash = CalculateFileHash(files[inv[p].filepath])]]
    /\ UNCHANGED <<downloads, tags, file_tags, files, links, dirs, config, clock, calls, org, dbcall, auto_tag_rules, settings, info>>

\* duplicate = self.db.check_hash_exists(file_hash)
CheckHash(p) ==
    /\ inv[p].pc = "check_hash"
    /\ \E duplicate \in FetchOne(CheckHashExists(inv[p].hash)) :
         inv' = [inv EXCEPT ![p] =
             IF duplicate # {}
             THEN [inv[p] EXCEPT !.pc = "unlink", !.dup = duplicate]
             ELSE [inv[p] EXCEPT !.pc = "stat"]]
    /\ UNCHANGED <<downloads, tags, file_tags, files, links, dirs, config, clock, calls, org, dbcall, auto_tag_rules, settings, info>>

\* filepath.unlink(); return {'status': 'duplicate', 'file': duplicate}
Unlink(p) ==
    /\ inv[p].pc = "unlink"
    /\ IF files[inv[p].filepath] = Absent
       THEN /\ inv' = [inv EXCEPT ![p] = Raise(p, "unlink")]
            /\ files' = files
       ELSE /\ files' = [files EXCEPT ![inv[p].filepath] = Absent]
            /\ inv' = [inv EXCEPT ![p].pc = "done", ![p].status = "duplicate",
                                  ![p].file = inv[p].dup]
    /\ UNCHANGED <<downloads, tags, file_tags, links, dirs, config, clock, calls, org, dbcall, auto_tag_rules, settings, info>>

\* metadata = {..., 'size': filepath.stat().st_size, ...}
Stat(p) ==
    /\ inv[p].pc = "stat"
    /\ inv' = [inv EXCEPT ![p] =
           IF files[inv[p].filepath] = Absent
           THEN Raise(p, "stat")
           ELSE [inv[p] EXCEPT !.pc = "persist"]]
    /\ UNCHANGED <<downloads, tags, file_tags, files, links, dirs, config, clock, calls, org, dbcall, auto_tag_rules, settings, info>>

\* a pipeline that organizes before it has written the tags
AfterTag_SkipTags(rec, i) == [rec EXCEPT !.pc = "organize", !.ti = 0]

\* where the tag loop goes after tag number i
AfterTag(rec, i) ==
    IF i >= Len(rec.tags)
    THEN [rec EXCEPT !.pc = "organize", !.ti = 0]
    ELSE [rec EXCEPT !.pc = "tag_select", !.ti = i + 1]

\* file_id = self.db.add_download(url, source, filepath, metadata), then
\* tags = self._get_auto_tags(source) + additional_tags
Persist(p) ==
    /\ inv[p].pc = "persist"
    /\ IF UniqueViolation(inv[p].url, inv[p].filepath, inv[p].hash)
       THEN \* sqlite3.IntegrityError, caught by except Exception
            /\ inv' = [inv EXCEPT ![p] = Raise(p, "persist")]
            /\ downloads' = downloads
       ELSE LET row == NewDownload(inv[p].url, inv[p].source, inv[p].filepath, inv[p].hash)
                taglist == GetAutoTags(inv[p].source) \o inv[p].extra
            IN  /\ downloads' = downloads \cup {row}
                /\ inv' = [inv EXCEPT ![p] =
                       AfterTag([inv[p] EXCEPT !.file_id = row.id, !.tags = taglist], 0)]
    /\ UNCHANGED <<tags, file_tags, files, links, dirs, config, clock, calls, org, dbcall, auto_tag_rules, settings, info>>

\* a tags table whose name column is not UNIQUE
TagUniqueViolation_None(name) == FALSE

\* tags.name is UNIQUE: an INSERT of a name already there is rejected
TagUniqueViolation(name) == \E t \in tags : t.name = name

\* INSERT OR REPLACE: the row of the pair is replaced by the new one
AddFileTag_Replace(file_id, tag_id, auto_assigned) ==
    {ft \in file_tags : ~(ft.file_id = file_id /\ ft.tag_id = tag_id)}
    \cup {[file_id |-> file_id, tag_id |-> tag_id, auto |-> auto_assigned]}

\* Database.add_file_tag, its INSERT OR IGNORE INTO file_tags
AddFileTag(file_id, tag_id, auto_assigned) ==
    IF \E ft \in file_tags : ft.file_id = file_id /\ ft.tag_id = tag_id
    THEN file_tags
    ELSE file_tags \cup {[file_id |-> file_id, tag_id |-> tag_id, auto |-> auto_assigned]}

\* an auto flag left at add_file_tag's default
IsAuto_Never(p) == FALSE

\* auto = tag in self._get_auto_tags(source)
IsAuto(p) ==
    \E i \in 1..Len(GetAutoTags(inv[p].source)) :
        GetAutoTags(inv[p].source)[i] = inv[p].tags[inv[p].ti]

\* Database.get_or_create_tag, its SELECT id FROM tags WHERE name = ?; when a
\* row is found the association is written with it
TagSelect(p) ==
    /\ inv[p].pc = "tag_select"
    /\ LET found == {t \in tags : t.name = inv[p].tags[inv[p].ti]} IN
       IF found = {}
       THEN /\ inv' = [inv EXCEPT ![p].pc = "tag_insert"]
            /\ file_tags' = file_tags
       ELSE \E t \in found :
            /\ file_tags' = AddFileTag(inv[p].file_id, t.id, IsAuto(p))
            /\ inv' = [inv EXCEPT ![p] = AfterTag(inv[p], inv[p].ti)]
    /\ UNCHANGED <<downloads, tags, files, links, dirs, config, clock, calls, org, dbcall, auto_tag_rules, settings, info>>

\* Database.get_or_create_tag, its INSERT INTO tags (name UNIQUE), and the
\* association written with the new id
TagInsert(p) ==
    /\ inv[p].pc = "tag_insert"
    /\ IF TagUniqueViolation(inv[p].tags[inv[p].ti])
       THEN \* sqlite3.IntegrityError, caught by except Exception
            /\ inv' = [inv EXCEPT ![p] = Raise(p, "tag")]
            /\ UNCHANGED <<tags, file_tags>>
       ELSE LET id == NextRowId(tags) IN
            /\ tags' = tags \cup {[id |-> id, name |-> inv[p].tags[inv[p].ti]]}
            /\ file_tags' = AddFileTag(inv[p].file_id, id, IsAuto(p))
            /\ inv' = [inv EXCEPT ![p] = AfterTag(inv[p], inv[p].ti)]
    /\ UNCHANGED <<downloads, files, links, dirs, config, clock, calls, org, dbcall, auto_tag_rules, settings, info>>

\* self.symlink_manager.organize_file(...); return {'status': 'success', ...}
Organize(p) ==
    /\ inv[p].pc = "organize"
    /\ LET r == OrganizeFile([links |-> links, dirs |-> dirs],
                             DownloadFile(inv[p].filepath), inv[p].source,
                             inv[p].tags, NoDate, config.organize_by_source,
                             config.organize_by_tag, config.organize_by_date)
       IN  /\ links' = r.links
           /\ dirs' = r.dirs
           /\ inv' = [inv EXCEPT ![p].pc = "done", ![p].status = "success",
                                 ![p].results = r.results]
    /\ UNCHANGED <<downloads, tags, file_tags, files, config, clock, calls, org, dbcall, auto_tag_rules, settings, info>>

Step(p) ==
    \/ Fetch(p)
    \/ HashFile(p)
    \/ CheckHash(p)
    \/ Unlink(p)
    \/ Stat(p)
    \/ Persist(p)
    \/ TagSelect(p)
    \/ TagInsert(p)
    \/ Organize(p)

\* callers that share the store and the directories, with no serialization
Next ==
    \E p \in Procs :
        \/ \E r \in Requests : Start(p, r.url, r.custom_name, r.additional_tags)
        \/ Step(p)

Spec == Init /\ [][Next]_vars

\* one download at a time: a call starts only when no other is in progress
StartSeq(p, url, custom_name, additional_tags) ==
    /\ \A q \in Procs : inv[q].pc \in {"idle", "done"}
    /\ Start(p, url, custom_name, additional_tags)

NextSeq ==
    \E p \in Procs :
        \/ \E r \in Requests : StartSeq(p, r.url, r.custom_name, r.additional_tags)
        \/ Step(p)

SpecSeq == Init /\ [][NextSeq]_vars

-----------------------------------------------------------------------------
(* SymlinkManager called directly, with a user who drops files of their own  *)
(* into the forest between the calls                                         *)

OrgFiles == {DownloadFile("video.mp4"), DownloadFile("clip.mp4")}

OrgSources == {"youtube"}

OrgTags == {"demo"}

OrgDates == {[y |-> 2024, m |-> 3, d |-> 30], NoDate}

\* the link paths these calls can compute
OrgLinks ==
    {SourceLink(f, s) : f \in OrgFiles, s \in OrgSources}
    \cup {TagLink(f, t) : f \in OrgFiles, t \in OrgTags}
    \cup {<<"by-date", k, Name(f)>> : f \in OrgFiles, k \in DateKeys}

\* one call of organize_by_source / organize_by_tag / organize_by_date, r its
\* outcome; org records the call, what was at the link path before it, what
\* it returned, and how many times in a row the same call has been made
Called(op, filepath, key, date, link, r) ==
    LET same == /\ org.op = op /\ org.filepath = filepath /\ org.key = key
                /\ org.date = date /\ org.repeat > 0
        free == links[link].kind \in {"absent", "symlink"} /\ dirs[Parent(link)] # "file"
    IN  /\ org.ncalls < MaxOrgOps
        /\ links' = r.links
        /\ dirs' = r.dirs
        /\ org' = [org EXCEPT !.op = op, !.filepath = filepath, !.key = key,
                       !.date = date, !.link = link, !.before = links[link],
                       !.dirBefore = dirs[Parent(link)], !.ok = r.ok,
                       !.changed = {l \in LinkPaths : r.links[l] # links[l]},
                       !.repeat = IF same THEN org.repeat + 1 ELSE 1,
                       !.clear = IF same THEN org.clear ELSE free,
                       !.oks = IF same THEN org.oks /\ r.ok ELSE r.ok,
                       !.ncalls = org.ncalls + 1]
        /\ UNCHANGED <<downloads, tags, file_tags, files, config, clock, inv, calls, dbcall, auto_tag_rules, settings, info>>

CallOrganizeBySource(filepath, source) ==
    Called("organize_by_source", filepath, source, NoDate,
           SourceLink(filepath, source),
           OrganizeBySource([links |-> links, dirs |-> dirs], filepath, source))

CallOrganizeByTag(filepath, tag) ==
    Called("organize_by_tag", filepath, tag, NoDate,
           TagLink(filepath, tag),
           OrganizeByTag([links |-> links, dirs |-> dirs], filepath, tag))

CallOrganizeByDate(filepath, date) ==
    Called("organize_by_date", filepath, None, date,
           DateLink(filepath, date),
           OrganizeByDate([links |-> links, dirs |-> dirs], filepath, date))

\* the user puts a regular file or a directory of their own at a free link path
EnvPlace(link, entry) ==
    /\ org.nenv < MaxEnv
    /\ links[link] = NoEntry
    /\ dirs[Parent(link)] # "file"
    /\ links' = [links EXCEPT ![link] = entry]
    /\ dirs' = [dirs EXCEPT ![Parent(link)] = "dir"]
    /\ org' = [org EXCEPT !.repeat = 0, !.nenv = org.nenv + 1]
    /\ UNCHANGED <<downloads, tags, file_tags, files, config, clock, inv, calls, dbcall, auto_tag_rules, settings, info>>

\* the user puts a regular file where a key directory would go
EnvBlock(keydir) ==
    /\ org.nenv < MaxEnv
    /\ dirs[keydir] = "absent"
    /\ dirs' = [dirs EXCEPT ![keydir] = "file"]
    /\ org' = [org EXCEPT !.repeat = 0, !.nenv = org.nenv + 1]
    /\ UNCHANGED <<downloads, tags, file_tags, files, links, config, clock, inv, calls, dbcall, auto_tag_rules, settings, info>>

\* the month turns
Tick ==
    /\ org.nenv < MaxEnv
    /\ clock.m = 3
    /\ clock' = [y |-> 2024, m |-> 4, d |-> 1]
    /\ org' = [org EXCEPT !.repeat = 0, !.nenv = org.nenv + 1]
    /\ UNCHANGED <<downloads, tags, file_tags, files, links, dirs, config, inv, calls, dbcall, auto_tag_rules, settings, info>>

NextOrg ==
    \/ \E f \in OrgFiles, s \in OrgSources : CallOrganizeBySource(f, s)
    \/ \E f \in OrgFiles, t \in OrgTags : CallOrganizeByTag(f, t)
    \/ \E f \in OrgFiles, d \in OrgDates : CallOrganizeByDate(f, d)
    \/ \E l \in OrgLinks, e \in {RegularFile, Directory} : EnvPlace(l, e)
    \/ \E l \in OrgLinks : EnvBlock(Parent(l))
    \/ Tick

SpecOrg == Init /\ [][NextOrg]_vars

-----------------------------------------------------------------------------
(* Properties of the download pipeline *)

\* the invocation started last
Latest(p) == inv[p].seq = calls /\ calls > 0

\* C1: a download(url) called while the store holds a record of url returns
\* 'exists' with that record at once: it never runs the fetch tool, adds no
\* record, and get_all_sources() is what it was.
C1_ExistsShortCircuit ==
    [][\A p \in Procs :
        (inv'[p].seq # inv[p].seq /\ \E r \in downloads : r.url = inv'[p].url) =>
            /\ inv'[p].pc = "done"
            /\ inv'[p].status = "exists"
            /\ inv'[p].file # {}
            /\ inv'[p].file \subseteq {r \in downloads : r.url = inv'[p].url}
            /\ inv'[p].fetches = 0
            /\ downloads' = downloads
            /\ GetAllSources' = GetAllSources]_vars

C1_Witness ==
    \E p \in Procs :
        /\ inv[p].status = "exists"
        /\ inv[p].fetches = 0
        /\ \E r \in inv[p].file : r \in downloads /\ r.url = inv[p].url

\* C2: with downloads run one after the other, a download that fetched a file
\* whose hash is that of a record made from another URL returns 'duplicate'
\* with that record, the file it fetched is gone from disk, and the store
\* holds exactly one record with that hash.
C2_SecondIsDuplicate ==
    \A p \in Procs :
        ( /\ Latest(p)
          /\ inv[p].pc = "done"
          /\ inv[p].hash # NoHash
          /\ \E r \in downloads : r.hash = inv[p].hash /\ r.url # inv[p].url ) =>
            /\ inv[p].status = "duplicate"
            /\ inv[p].file = {r \in downloads : r.hash = inv[p].hash}
            /\ Cardinality({r \in downloads : r.hash = inv[p].hash}) = 1
            /\ files[inv[p].filepath] = Absent

C2_Witness ==
    \E p \in Procs :
        /\ Latest(p)
        /\ inv[p].status = "duplicate"
        /\ inv[p].filepath = "reupload.mp4"
        /\ files["reupload.mp4"] = Absent
        /\ files["video.mp4"] = "bytesA"
        /\ \E r \in inv[p].file : r \in downloads /\ r.url # inv[p].url

\* C3: no two download records have the same content hash, whatever the
\* interleaving of the invocations.
C3_DistinctHashes ==
    \A r1, r2 \in downloads : r1.hash = r2.hash => r1 = r2

\* C5: the filepath of every download record is a file that exists on disk
\* (nobody but the pipeline touches the downloads directory).
C5_RecordFilesExist ==
    \A r \in downloads : files[r.filepath] # Absent

\* C6: add_download is rejected, and inserts nothing, whenever the table
\* already holds a row with the same url or a row with the same hash.
C6_InsertRejectsUrlOrHash ==
    [][\A p \in Procs :
        ( /\ inv[p].pc = "persist"
          /\ inv'[p].pc # "persist"
          /\ \E r \in downloads : r.url = inv[p].url \/ r.hash = inv[p].hash ) =>
            /\ downloads' = downloads
            /\ inv'[p].raised = "persist"]_vars

\* C7: an invocation whose insert was rejected by a uniqueness constraint
\* ends as the duplicate branch does: status 'duplicate', carrying the record
\* already there, its fetched file removed.
C7_RejectedInsertIsDuplicate ==
    \A p \in Procs :
        inv[p].raised = "persist" =>
            /\ inv[p].status = "duplicate"
            /\ inv[p].file # {}
            /\ files[inv[p].filepath] = Absent

\* C8: nothing between CHECK_HASH and PERSIST stops a second insert of the
\* same content: an invocation that found no record of its hash and reaches
\* PERSIST after another invocation has inserted a record with that hash
\* (under another url and path) inserts its own, and the store then holds two
\* records of identical content.
C8_RaceInsertsTwice ==
    [][\A p \in Procs :
        ( /\ inv[p].pc = "persist"
          /\ inv'[p].pc # "persist"
          /\ \E r \in downloads : r.hash = inv[p].hash
          /\ \A r \in downloads : r.url # inv[p].url /\ r.filepath # inv[p].filepath ) =>
            /\ inv'[p].raised = "none"
            /\ inv'[p].file_id # 0
            /\ Cardinality({r \in downloads' : r.hash = inv[p].hash}) >= 2]_vars

C8_Witness ==
    \E p, q \in Procs :
        /\ p # q
        /\ inv[p].file_id # 0 /\ inv[q].file_id # 0
        /\ inv[p].hash = inv[q].hash
        /\ \E r1, r2 \in downloads :
             /\ r1.id = inv[p].file_id /\ r2.id = inv[q].file_id
             /\ r1 # r2 /\ r1.hash = r2.hash

\* C9: no two download records have the same url, and no two the same
\* filepath, whatever the interleaving of the invocations.
C9_UrlAndFilepathUnique ==
    \A r1, r2 \in downloads :
        r1 # r2 => r1.url # r2.url /\ r1.filepath # r2.filepath

C9_Witness ==
    /\ Cardinality(downloads) >= 2
    /\ \E p \in Procs : inv[p].raised = "persist"

-----------------------------------------------------------------------------
(* Properties of the placements *)

NonSymlink(entry) == entry.kind \in {"file", "dir"}

\* C4: no step removes or changes a regular file or directory found at a link
\* path, and organize_by_source / organize_by_tag / organize_by_date return
\* False when such an entry is at the path they compute.
C4_NonSymlinkUntouched ==
    [][ /\ \A l \in LinkPaths : NonSymlink(links[l]) => links'[l] = links[l]
        /\ files' = files
        /\ (org'.ncalls # org.ncalls /\ NonSymlink(links[org'.link])) => ~org'.ok ]_vars

C4_Witness ==
    /\ org.op \in {"organize_by_source", "organize_by_tag", "organize_by_date"}
    /\ org.repeat > 0
    /\ NonSymlink(org.before)
    /\ ~org.ok
    /\ links[org.link] = org.before

\* the run of identical calls made last left one link at its path, resolving
\* to the file, and touched no other path
OneLink ==
    /\ org.oks
    /\ org.ok
    /\ links[org.link].kind = "symlink"
    /\ LinkTarget(org.link) = org.filepath
    /\ org.changed \subseteq {org.link}

\* C10 as stated: two or more identical organize_by_* calls in a row return
\* True each time and leave one link at the path, resolving to the file.
C10_Idempotent ==
    org.repeat >= 2 => OneLink

\* C10, amended: the same, when no regular file or directory is at the link
\* path and no regular file where its directory goes when the first of the
\* calls is made.
C10_IdempotentWhenFree ==
    (org.repeat >= 1 /\ org.clear) => OneLink

C10_Witness ==
    /\ org.repeat >= 2
    /\ org.clear
    /\ org.before.kind = "symlink"
    /\ OneLink

-----------------------------------------------------------------------------
(* SymlinkManager.organize_file called directly *)

\* organize_file calls made in one run
MaxFileCalls == 2

OrgFileArgs == {DownloadFile("video.mp4")}

OrgTagSeqs == {<<>>, <<"demo", "youtube">>}

\* (organize_source, organize_tags, organize_date)
OrgFlags == {<<TRUE, TRUE, TRUE>>, <<FALSE, TRUE, TRUE>>,
             <<TRUE, FALSE, TRUE>>, <<TRUE, TRUE, FALSE>>}

\* the link paths organize_file computes for its arguments
FileLinks(filepath, source, tagseq, date) ==
    {SourceLink(filepath, source)}
    \cup {TagLink(filepath, tagseq[i]) : i \in 1..Len(tagseq)}
    \cup {DateLink(filepath, date)}

\* the link paths these calls can compute
OrgFileLinks ==
    UNION {FileLinks(f, s, <<"demo", "youtube">>, NoDate) : f \in OrgFileArgs, s \in OrgSources}
    \cup {<<"by-date", k, Name(f)>> : f \in OrgFileArgs, k \in DateKeys}

\* one call of organize_file; org records its arguments, the result map, the
\* date datetime.now() gave, and whether every path it computes was free of
\* regular files and directories
CallOrganizeFile(filepath, source, tagseq, date, flags) ==
    \E r \in {OrganizeFile([links |-> links, dirs |-> dirs], filepath, source,
                           tagseq, date, flags[1], flags[2], flags[3])} :
        /\ org.ncalls < MaxFileCalls
        /\ links' = r.links
        /\ dirs' = r.dirs
        /\ org' = [org EXCEPT !.op = "organize_file", !.filepath = filepath,
                       !.key = source, !.date = date, !.tags = tagseq,
                       !.flags = flags, !.results = r.results, !.now = clock,
                       !.changed = {l \in LinkPaths : r.links[l] # links[l]},
                       !.clear = \A l \in FileLinks(filepath, source, tagseq, date) :
                                    /\ links[l].kind \in {"absent", "symlink"}
                                    /\ dirs[Parent(l)] # "file",
                       !.repeat = 1,
                       !.ncalls = org.ncalls + 1]
        /\ UNCHANGED <<downloads, tags, file_tags, files, config, clock, inv, calls, dbcall, auto_tag_rules, settings, info>>

NextFile ==
    \/ \E f \in OrgFileArgs, s \in OrgSources, ts \in OrgTagSeqs, d \in OrgDates,
          fl \in OrgFlags : CallOrganizeFile(f, s, ts, d, fl)
    \/ \E l \in OrgFileLinks, e \in {RegularFile, Directory} : EnvPlace(l, e)
    \/ Tick

SpecFile == Init /\ [][NextFile]_vars

\* the month of a date, as the directory name by-date uses
YearMonth(date) == IF date.m = 3 THEN "2024-03" ELSE "2024-04"

\* C11: after organize_file with the three axes enabled and no regular file
\* or directory in the way, by-source/<source>/<name>, by-tag/<t>/<name> for
\* every tag t, and by-date/<YYYY-MM of the date>/<name> are symbolic links
\* that all resolve to the same file, filepath.
C11_AllAxesResolve ==
    ( /\ org.op = "organize_file"
      /\ org.flags = <<TRUE, TRUE, TRUE>>
      /\ org.clear ) =>
        LET n == Name(org.filepath)
            when == IF org.date = NoDate THEN org.now ELSE org.date
            expected == {<<"by-source", org.key, n>>}
                        \cup {<<"by-tag", org.tags[i], n>> : i \in 1..Len(org.tags)}
                        \cup {<<"by-date", YearMonth(when), n>>}
        IN  /\ \A l \in expected :
                 links[l].kind = "symlink" /\ LinkTarget(l) = org.filepath
            /\ org.changed \subseteq expected
            /\ \A i \in 1..Len(org.results) : org.results[i].ok

C11_Witness ==
    /\ org.op = "organize_file"
    /\ org.flags = <<TRUE, TRUE, TRUE>>
    /\ org.clear
    /\ org.tags = <<"demo", "youtube">>
    /\ org.key = "youtube"
    /\ org.date = [y |-> 2024, m |-> 3, d |-> 30]
    /\ org.filepath = DownloadFile("video.mp4")
    /\ LinkTarget(<<"by-source", "youtube", "video.mp4">>) = DownloadFile("video.mp4")
    /\ LinkTarget(<<"by-tag", "demo", "video.mp4">>) = DownloadFile("video.mp4")
    /\ LinkTarget(<<"by-tag", "youtube", "video.mp4">>) = DownloadFile("video.mp4")
    /\ LinkTarget(<<"by-date", "2024-03", "video.mp4">>) = DownloadFile("video.mp4")
    /\ Cardinality({l \in LinkPaths : links[l].kind = "symlink"}) = 4

-----------------------------------------------------------------------------
(* SymlinkManager.remove_broken_symlinks *)

\* files written to or deleted from the download directory in one run
MaxFileEvents == 2

\* Path.exists() of a link path: the entry it resolves to is there
Exists(fs, files_, link) ==
    LET target == Resolve(Parent(link), fs.links[link].target)
    IN  /\ Len(target) = 2
        /\ target[1] = "downloads"
        /\ target[2] \in FileNames
        /\ files_[target[2]] # Absent

\* the three namespace roots
AllRoots == {<<ns>> : ns \in Namespaces}

\* the items dir_path.rglob("*") yields that are link paths
Under(link, dir_path) ==
    /\ Len(dir_path) < Len(link)
    /\ SubSeq(link, 1, Len(dir_path)) = dir_path

\* a sweep that unlinks every symlink it meets
RemoveBrokenSymlinks_EveryLink(fs, files_, directory) ==
    LET directories == IF directory # <<>> THEN {directory} ELSE AllRoots
        gone == {l \in LinkPaths :
                    /\ \E d \in directories : Under(l, d)
                    /\ fs.links[l].kind = "symlink"}
    IN  [links |-> [l \in LinkPaths |-> IF l \in gone THEN NoEntry ELSE fs.links[l]],
         dirs |-> fs.dirs, removed |-> gone, ret |-> <<>>]

\* remove_broken_symlinks(directory); directory <<>> is None.  The function
\* has no return statement, so it returns None (ret <<>>).
RemoveBrokenSymlinks(fs, files_, directory) ==
    LET directories == IF directory # <<>> THEN {directory} ELSE AllRoots
        gone == {l \in LinkPaths :
                    /\ \E d \in directories : Under(l, d)
                    /\ fs.links[l].kind = "symlink"
                    /\ ~Exists(fs, files_, l)}
    IN  [links |-> [l \in LinkPaths |-> IF l \in gone THEN NoEntry ELSE fs.links[l]],
         dirs |-> fs.dirs, removed |-> gone, ret |-> <<>>]

\* directory arguments of the sweep: None, a namespace root, a key directory
SweepDirs == {<<>>, <<"by-tag">>, <<"by-tag", "demo">>}

CallRemoveBrokenSymlinks(directory) ==
    \E r \in {RemoveBrokenSymlinks([links |-> links, dirs |-> dirs], files, directory)} :
        /\ org.ncalls < MaxOrgOps
        /\ links' = r.links
        /\ dirs' = r.dirs
        /\ org' = [org EXCEPT !.op = "remove_broken_symlinks", !.dir = directory,
                       !.removed = r.removed, !.ret = r.ret, !.repeat = 0,
                       !.ncalls = org.ncalls + 1]
        /\ UNCHANGED <<downloads, tags, file_tags, files, config, clock, inv, calls, dbcall, auto_tag_rules, settings, info>>

\* a file appears in the download directory
FileAppears(name) ==
    /\ org.nfile < MaxFileEvents
    /\ files[name] = Absent
    /\ files' = [files EXCEPT ![name] = "bytesA"]
    /\ org' = [org EXCEPT !.repeat = 0, !.nfile = org.nfile + 1]
    /\ UNCHANGED <<downloads, tags, file_tags, links, dirs, config, clock, inv, calls, dbcall, auto_tag_rules, settings, info>>

\* the user deletes or moves a downloaded file
FileVanishes(name) ==
    /\ org.nfile < MaxFileEvents
    /\ files[name] # Absent
    /\ files' = [files EXCEPT ![name] = Absent]
    /\ org' = [org EXCEPT !.repeat = 0, !.nfile = org.nfile + 1]
    /\ UNCHANGED <<downloads, tags, file_tags, links, dirs, config, clock, inv, calls, dbcall, auto_tag_rules, settings, info>>

\* the paths the user writes entries of their own to
SweepEnvLinks == {<<"by-tag", "demo", "clip.mp4">>}

NextSweep ==
    \/ \E f \in OrgFiles, s \in OrgSources : CallOrganizeBySource(f, s)
    \/ \E f \in OrgFiles, t \in OrgTags : CallOrganizeByTag(f, t)
    \/ \E f \in OrgFiles : CallOrganizeByDate(f, [y |-> 2024, m |-> 3, d |-> 30])
    \/ \E d \in SweepDirs : CallRemoveBrokenSymlinks(d)
    \/ \E f \in OrgFiles : FileAppears(Name(f))
    \/ \E f \in OrgFiles : FileVanishes(Name(f))
    \/ \E l \in SweepEnvLinks, e \in {RegularFile, Directory} : EnvPlace(l, e)

SpecSweep == Init /\ [][NextSweep]_vars

\* a symlink whose target is not in the download directory
Dangling(link) ==
    /\ links[link].kind = "symlink"
    /\ \A n \in FileNames : LinkTarget(link) = DownloadFile(n) => files[n] = Absent

\* the link paths a sweep of org.dir covers
Swept(link, dir) ==
    IF dir = <<>> THEN link[1] \in {"by-source", "by-tag", "by-date"}
    ELSE SubSeq(link, 1, Len(dir)) = dir

C13_ReturnsCount ==
    org.op = "remove_broken_symlinks" => org.ret = <<Cardinality(org.removed)>>

-----------------------------------------------------------------------------
(* Tagging *)

\* the association of file file_id with the tag named name has this flag
Associated(file_id, name, auto_assigned) ==
    \E t \in tags, ft \in file_tags :
        /\ t.name = name
        /\ ft.file_id = file_id
        /\ ft.tag_id = t.id
        /\ ft.auto = auto_assigned

\* the tags the enabled rules of the configuration give a source
RuleTags(source) ==
    {config.auto_tag_rules[i].tag : i \in
        {j \in 1..Len(config.auto_tag_rules) :
            /\ config.auto_tag_rules[j].enabled
            /\ config.auto_tag_rules[j].source = source}}

\* C14: when a download has returned 'success', every tag an enabled rule
\* gives the detected source is associated with the file with auto_assigned
\* true, and every explicit tag that no rule gives is associated with it with
\* auto_assigned false.
C14_AutoFlagFollowsRules ==
    \A p \in Procs :
        inv[p].status = "success" =>
            /\ \A t \in RuleTags(inv[p].source) : Associated(inv[p].file_id, t, TRUE)
            /\ \A i \in 1..Len(inv[p].extra) :
                  inv[p].extra[i] \notin RuleTags(inv[p].source) =>
                      Associated(inv[p].file_id, inv[p].extra[i], FALSE)

\* the YouTube download with the extra tag 'demo' has succeeded
C14_Witness ==
    \E p \in Procs :
        /\ inv[p].status = "success"
        /\ inv[p].url = "https://youtube.com/watch?v=abc"
        /\ inv[p].extra = <<"demo">>
        /\ Associated(inv[p].file_id, "youtube", TRUE)
        /\ Associated(inv[p].file_id, "demo", FALSE)
        /\ ~Associated(inv[p].file_id, "demo", TRUE)

-----------------------------------------------------------------------------
(* Database.get_or_create_tag and Database.add_file_tag called directly,    *)
(* one action per sqlite statement                                          *)

\* direct Database calls each caller makes in one run
MaxDbCalls == 2

DbTagNames == {"demo", "music"}

DbFileIds == {1}

\* get_or_create_tag(tag_name) is called
CallGetOrCreateTag(p, tag_name) ==
    /\ dbcall[p].pc \in {"idle", "done"}
    /\ dbcall[p].n < MaxDbCalls
    /\ dbcall' = [dbcall EXCEPT ![p] =
           [NoDbCall EXCEPT !.op = "get_or_create_tag", !.pc = "select",
                            !.name = tag_name, !.n = dbcall[p].n + 1]]
    /\ UNCHANGED <<downloads, tags, file_tags, files, links, dirs, config, clock,
                   inv, calls, org, auto_tag_rules, settings, info>>

\* add_file_tag(file_id, tag_name, auto_assigned) is called; its first
\* statement is tag_id = self.get_or_create_tag(tag_name)
CallAddFileTag(p, file_id, tag_name, auto_assigned) ==
    /\ dbcall[p].pc \in {"idle", "done"}
    /\ dbcall[p].n < MaxDbCalls
    /\ dbcall' = [dbcall EXCEPT ![p] =
           [NoDbCall EXCEPT !.op = "add_file_tag", !.pc = "select",
                            !.name = tag_name, !.file_id = file_id,
                            !.auto = auto_assigned, !.n = dbcall[p].n + 1]]
    /\ UNCHANGED <<downloads, tags, file_tags, files, links, dirs, config, clock,
                   inv, calls, org, auto_tag_rules, settings, info>>

\* what get_or_create_tag's caller does with the id it returns
Returned(rec, id) ==
    IF rec.op = "get_or_create_tag"
    THEN [rec EXCEPT !.pc = "done", !.tag_id = id, !.ret = <<id>>]
    ELSE [rec EXCEPT !.pc = "assoc", !.tag_id = id]

\* SELECT id FROM tags WHERE name = ?; if result: return result[0]
DbSelect(p) ==
    /\ dbcall[p].pc = "select"
    /\ LET found == {t \in tags : t.name = dbcall[p].name} IN
       IF found = {}
       THEN dbcall' = [dbcall EXCEPT ![p].pc = "insert"]
       ELSE \E t \in found : dbcall' = [dbcall EXCEPT ![p] = Returned(dbcall[p], t.id)]
    /\ UNCHANGED <<downloads, tags, file_tags, files, links, dirs, config, clock,
                   inv, calls, org, auto_tag_rules, settings, info>>

\* INSERT INTO tags (name) VALUES (?); return cursor.lastrowid.  A rejected
\* INSERT raises sqlite3.IntegrityError out of the call.
DbInsert(p) ==
    /\ dbcall[p].pc = "insert"
    /\ IF TagUniqueViolation(dbcall[p].name)
       THEN /\ dbcall' = [dbcall EXCEPT ![p].pc = "done", ![p].raised = TRUE]
            /\ tags' = tags
       ELSE LET id == NextRowId(tags) IN
            /\ tags' = tags \cup {[id |-> id, name |-> dbcall[p].name]}
            /\ dbcall' = [dbcall EXCEPT ![p] = Returned(dbcall[p], id)]
    /\ UNCHANGED <<downloads, file_tags, files, links, dirs, config, clock,
                   inv, calls, org, auto_tag_rules, settings, info>>

\* INSERT OR IGNORE INTO file_tags (file_id, tag_id, auto_assigned); existed
\* keeps the row of the pair that was there before the statement
DbAssoc(p) ==
    /\ dbcall[p].pc = "assoc"
    /\ file_tags' = AddFileTag(dbcall[p].file_id, dbcall[p].tag_id, dbcall[p].auto)
    /\ dbcall' = [dbcall EXCEPT ![p].pc = "done",
                      ![p].existed = {ft \in file_tags :
                                         /\ ft.file_id = dbcall[p].file_id
                                         /\ ft.tag_id = dbcall[p].tag_id}]
    /\ UNCHANGED <<downloads, tags, files, links, dirs, config, clock,
                   inv, calls, org, auto_tag_rules, settings, info>>

NextTags ==
    \E p \in Procs :
        \/ \E n \in DbTagNames : CallGetOrCreateTag(p, n)
        \/ \E f \in DbFileIds, n \in DbTagNames, a \in BOOLEAN : CallAddFileTag(p, f, n, a)
        \/ DbSelect(p)
        \/ DbInsert(p)
        \/ DbAssoc(p)

SpecTags == Init /\ [][NextTags]_vars

\* C15: add_file_tag inserts only if absent: there is never more than one
\* association for a (file, tag) pair, and no step changes or removes an
\* association that exists, so a call for an existing pair leaves its
\* auto_assigned flag as it was whatever flag the call passes.
C15_InsertIfAbsent ==
    [][/\ \A ft \in file_tags : ft \in file_tags'
       /\ \A x \in file_tags', y \in file_tags' :
              (x.file_id = y.file_id /\ x.tag_id = y.tag_id) => x = y]_vars

\* an add_file_tag call has completed for a pair that was associated with the
\* other flag
C15_Witness ==
    \E p \in Procs :
        /\ dbcall[p].op = "add_file_tag"
        /\ dbcall[p].pc = "done"
        /\ ~dbcall[p].raised
        /\ \E ft \in dbcall[p].existed : ft.auto # dbcall[p].auto
        /\ \E ft \in file_tags :
              /\ ft.file_id = dbcall[p].file_id
              /\ ft.tag_id = dbcall[p].tag_id
              /\ ft.auto # dbcall[p].auto

\* C16: get_or_create_tag never duplicates a tag: at every moment of every
\* interleaving there is at most one row per name, and the id a call returns
\* is the id of the one row of that name, so every call for a name returns
\* the same id.
C16_OneRowPerName ==
    /\ \A x \in tags, y \in tags : x.name = y.name => x = y
    /\ \A p \in Procs :
          dbcall[p].ret # <<>> =>
              \E t \in tags : t.name = dbcall[p].name /\ t.id = dbcall[p].ret[1]

\* both callers have got the id of the same name, one of them on a second call
C16_Witness ==
    /\ \A p \in Procs : dbcall[p].ret # <<>> /\ dbcall[p].name = "demo"
    /\ dbcall["p1"].ret = dbcall["p2"].ret
    /\ \E p \in Procs : dbcall[p].n = 2
    /\ Cardinality(tags) = 1

\* C17: two concurrent get_or_create_tag calls for the same new name both
\* complete with the same id; neither ends in a uniqueness error.
C17_BothComplete ==
    \A p \in Procs : ~dbcall[p].raised

-----------------------------------------------------------------------------
(* Downloads, one at a time, into a forest where the user has put entries   *)
(* of their own                                                             *)

\* the link paths of video.mp4 the user may occupy
PipeEnvLinks ==
    {<<"by-source", "youtube", "video.mp4">>, <<"by-tag", "demo", "video.mp4">>,
     <<"by-date", "2024-03", "video.mp4">>}

NextPipeEnv ==
    \/ NextSeq
    \/ \E l \in PipeEnvLinks, e \in {RegularFile, Directory} : EnvPlace(l, e)

SpecPipeEnv == Init /\ [][NextPipeEnv]_vars

\* an entry that is in the way of a placement at link: a regular file or a
\* directory at the path, or a regular file where its directory would go
Conflict(link) ==
    \/ links[link].kind \in {"file", "dir"}
    \/ dirs[Parent(link)] = "file"

\* C18: a conflict on one computed link path fails that placement only.  When
\* the organize step of a download runs, every computed path with a regular
\* file or directory in the way is reported False and left as it is, every
\* other computed path becomes a link to the file and is reported True, and
\* the download returns 'success' with its record in the store.
C18_ConflictFailsOnlyThatAxis ==
    [][\A p \in Procs :
        (inv[p].pc = "organize" /\ inv'[p].pc = "done") =>
            LET n == inv[p].filepath
                res == inv'[p].results
                reported(axis, key, ok) ==
                    \E i \in 1..Len(res) :
                        res[i].axis = axis /\ res[i].key = key /\ res[i].ok = ok
                placed(link, axis, key) ==
                    IF Conflict(link)
                    THEN reported(axis, key, FALSE) /\ links'[link] = links[link]
                    ELSE /\ reported(axis, key, TRUE)
                         /\ links'[link].kind = "symlink"
                         /\ LinkTarget(link)' = DownloadFile(n)
            IN  /\ placed(<<"by-source", inv[p].source, n>>, "source", inv[p].source)
                /\ \A i \in 1..Len(inv[p].tags) :
                      placed(<<"by-tag", inv[p].tags[i], n>>, "tags", inv[p].tags[i])
                /\ placed(<<"by-date", YearMonth(clock), n>>, "date", "date")
                /\ inv'[p].status = "success"
                /\ \E r \in downloads' : r.id = inv[p].file_id /\ r.url = inv[p].url]_vars

\* a download has succeeded although a regular file of the user's took the
\* place of its by-tag/demo link; its other three links were made
C18_Witness ==
    \E p \in Procs :
        /\ inv[p].status = "success"
        /\ inv[p].filepath = "video.mp4"
        /\ inv[p].tags = <<"youtube", "demo">>
        /\ \E i \in 1..Len(inv[p].results) :
              /\ inv[p].results[i].key = "demo"
              /\ ~inv[p].results[i].ok
        /\ links[<<"by-tag", "demo", "video.mp4">>] = RegularFile
        /\ links[<<"by-source", "youtube", "video.mp4">>].kind = "symlink"
        /\ links[<<"by-tag", "youtube", "video.mp4">>].kind = "symlink"
        /\ links[<<"by-date", "2024-03", "video.mp4">>].kind = "symlink"
        /\ \E r \in downloads : r.id = inv[p].file_id

-----------------------------------------------------------------------------
(* Failures of a download *)

\* C19: when the fetch tool fails, the download returns 'error' with a
\* message that contains the tool's diagnostic text, has run the tool once,
\* and has added no record, no tag, no tag association and no link: neither
\* the failing fetch step nor the call step before it changes the store or
\* the forest.
C19_FetchFailureAddsNothing ==
    [][\A p \in Procs :
        /\ (inv[p].pc = "fetch" /\ inv'[p].pc = "done") =>
              /\ inv'[p].status = "error"
              /\ inv'[p].exc \in Diagnostics
              /\ \E i \in 1..Len(inv'[p].message) : inv'[p].message[i] = inv'[p].exc
              /\ inv'[p].fetches = 1
              /\ inv'[p].file_id = 0
              /\ <<downloads, tags, file_tags, links, dirs>>' =
                     <<downloads, tags, file_tags, links, dirs>>
        /\ inv'[p].seq # inv[p].seq =>
              /\ inv'[p].fetches = 0
              /\ <<downloads, tags, file_tags, links, dirs>>' =
                     <<downloads, tags, file_tags, links, dirs>>]_vars

\* a download has failed in the fetch tool after another had filled the store
C19_Witness ==
    \E p \in Procs :
        /\ inv[p].raised = "fetch"
        /\ inv[p].status = "error"
        /\ inv[p].message = <<"Download error: ", "ERROR: Video unavailable">>
        /\ inv[p].fetches = 1
        /\ Cardinality(downloads) = 1
        /\ \A r \in downloads : r.url # inv[p].url

\* C20: a download that returns 'error' has inserted no record: errors come
\* from the steps up to the insert only, and once the record is inserted the
\* invocation ends in 'success'.
C20_ErrorInsertsNothing ==
    \A p \in Procs :
        inv[p].status = "error" =>
            /\ inv[p].file_id = 0
            /\ inv[p].raised \in {"fetch", "hash", "unlink", "stat", "persist"}

-----------------------------------------------------------------------------
(* Order of the steps of a download *)

\* the association of file file_id with the tag named name exists
Tagged(file_id, name) ==
    \E t \in tags, ft \in file_tags :
        t.name = name /\ ft.file_id = file_id /\ ft.tag_id = t.id

\* C21: the steps of a download run in the order CHECK_URL, FETCH, HASH,
\* CHECK_HASH, PERSIST, TAG, ORGANIZE.  The step that inserts the record is
\* taken by an invocation whose URL check and hash check found nothing, after
\* one fetch and the hash; a step that writes a tag or an association is taken
\* by an invocation whose record is in the store; a step that changes the
\* forest, and the step that returns 'success', is taken by an invocation
\* whose record and tag associations are all written.  A step that returns
\* 'exists' or 'duplicate' is taken by an invocation that inserted nothing,
\* and changes neither the store nor the forest.
C21_StepOrder ==
    [][\A p \in Procs :
        inv'[p] # inv[p] =>
            LET stored == \E r \in downloads :
                              r.id = inv[p].file_id /\ r.url = inv[p].url
            IN  /\ downloads' # downloads =>
                      /\ inv[p].file = {}
                      /\ inv[p].dup = {}
                      /\ inv[p].fetches = 1
                      /\ inv[p].hash # NoHash
                      /\ inv[p].file_id = 0
                      /\ ~\E r \in file_tags : r.file_id = inv'[p].file_id
                /\ (tags' # tags \/ file_tags' # file_tags) =>
                      /\ stored
                      /\ links' = links
                      /\ inv'[p].status # "success"
                /\ (links' # links \/ inv'[p].status = "success") =>
                      /\ stored
                      /\ \A i \in 1..Len(inv[p].tags) :
                            Tagged(inv[p].file_id, inv[p].tags[i])
                      /\ inv[p].tags = GetAutoTags(inv[p].source) \o inv[p].extra
                      /\ <<downloads, tags, file_tags>>' = <<downloads, tags, file_tags>>
                /\ inv'[p].status \in {"exists", "duplicate"} =>
                      /\ inv'[p].file_id = 0
                      /\ <<downloads, tags, file_tags, links, dirs>>' =
                             <<downloads, tags, file_tags, links, dirs>>]_vars

\* one download has gone through all its steps to 'success' and another has
\* ended 'duplicate' after its hash check
C21_Witness ==
    \E p \in Procs, q \in Procs :
        /\ inv[p].status = "success"
        /\ inv[p].tags = <<"youtube", "demo">>
        /\ Tagged(inv[p].file_id, "youtube")
        /\ Tagged(inv[p].file_id, "demo")
        /\ links[<<"by-tag", "demo", inv[p].filepath>>].kind = "symlink"
        /\ inv[q].status = "duplicate"
        /\ inv[q].file_id = 0
        /\ Cardinality(downloads) = 1

-----------------------------------------------------------------------------
(* Downloads whose explicit tags repeat a rule's tag *)

TagRequests ==
    { [url |-> "https://youtube.com/watch?v=abc", custom_name |-> None,
       additional_tags |-> <<"youtube">>],
      [url |-> "https://youtu.be/abc", custom_name |-> None,
       additional_tags |-> <<>>],
      [url |-> "https://vimeo.com/123", custom_name |-> None,
       additional_tags |-> <<"demo", "vimeo">>] }

NextDupTag ==
    \E p \in Procs :
        \/ \E r \in TagRequests : StartSeq(p, r.url, r.custom_name, r.additional_tags)
        \/ Step(p)

SpecDupTag == Init /\ [][NextDupTag]_vars

\* C22: the tags of a successful download are the union of the rule tags and
\* the explicit tags: the tag list of the success result holds each tag once,
\* and the record has one association for each.
C22_TagsAreUnion ==
    \A p \in Procs :
        inv[p].status = "success" =>
            /\ \A i \in 1..Len(inv[p].tags), j \in 1..Len(inv[p].tags) :
                  inv[p].tags[i] = inv[p].tags[j] => i = j
            /\ \A i \in 1..Len(inv[p].tags) :
                  Cardinality({ft \in file_tags :
                      /\ ft.file_id = inv[p].file_id
                      /\ \E t \in tags : t.id = ft.tag_id /\ t.name = inv[p].tags[i]}) = 1

-----------------------------------------------------------------------------
(* The auto-tag rules of the store *)

\* Database.get_auto_tag_rules: SELECT source, tag FROM auto_tag_rules WHERE
\* enabled = 1
DbGetAutoTagRules ==
    {[source |-> r.source, tag |-> r.tag] : r \in {x \in auto_tag_rules : x.enabled}}

\* Database.add_auto_tag_rule: INSERT OR IGNORE INTO auto_tag_rules (source,
\* tag, enabled) VALUES (?, ?, 1), with UNIQUE(source, tag)
DbAddAutoTagRule(source, tag) ==
    /\ auto_tag_rules' =
           IF \E r \in auto_tag_rules : r.source = source /\ r.tag = tag
           THEN auto_tag_rules
           ELSE auto_tag_rules \cup {[source |-> source, tag |-> tag, enabled |-> TRUE]}
    /\ UNCHANGED <<downloads, tags, file_tags, files, links, dirs, config, clock,
                   inv, calls, org, dbcall, settings, info>>

\* the rules a user adds to the store
DbRules == {[source |-> "youtube", tag |-> "music"], [source |-> "vimeo", tag |-> "art"]}

\* rules are added to the store first, the downloads come after them
NextRules ==
    \/ calls = 0 /\ \E r \in DbRules : DbAddAutoTagRule(r.source, r.tag)
    \/ NextSeq

SpecRules == Init /\ [][NextRules]_vars

\* C23: a rule added with Database.add_auto_tag_rule is returned by
\* Database.get_auto_tag_rules, and every successful download that follows
\* and whose source is the rule's has the rule's tag associated with
\* auto_assigned true.
C23_StoreRulesApplied ==
    /\ \A r \in auto_tag_rules : [source |-> r.source, tag |-> r.tag] \in DbGetAutoTagRules
    /\ \A p \in Procs :
          inv[p].status = "success" =>
              \A r \in DbGetAutoTagRules :
                  r.source = inv[p].source => Associated(inv[p].file_id, r.tag, TRUE)

-----------------------------------------------------------------------------
(* Config: construction, set, add_auto_tag_rule, remove_auto_tag_rule.      *)
(* DEFAULT_CONFIG.copy() is a shallow copy: the rule list and the formats   *)
(* dict of a configuration made from the defaults are the objects that      *)
(* DEFAULT_CONFIG holds, and a change made in place through one is seen     *)
(* through the other.  st is [config, defaults, shared].                    *)

\* Config calls made in one run
MaxConfigCalls == 3

\* the keys of DEFAULT_CONFIG whose values are mutable objects
Mutable == {"auto_tag_rules", "source_formats"}

\* config = DEFAULT_CONFIG.copy(); config.update(loaded)
Merged(defaults, loaded) ==
    [config |-> [k \in DOMAIN defaults |->
                    IF k \in DOMAIN loaded THEN loaded[k] ELSE defaults[k]],
     shared |-> Mutable \ DOMAIN loaded]

\* the position of the first rule for (source, tag), 0 when there is none
FirstRule(rules, source, tag) ==
    LET hits == {i \in 1..Len(rules) : rules[i].source = source /\ rules[i].tag = tag}
    IN  IF hits = {} THEN 0 ELSE CHOOSE i \in hits : \A j \in hits : i <= j

\* an add_auto_tag_rule that appends without looking for the rule
ConfigAddAutoTagRule_Append(st, source, tag) ==
    LET rules == Append(st.config.auto_tag_rules,
                        [source |-> source, tag |-> tag, enabled |-> TRUE])
    IN  [config |-> [st.config EXCEPT !.auto_tag_rules = rules],
         defaults |-> IF "auto_tag_rules" \in st.shared
                      THEN [st.defaults EXCEPT !.auto_tag_rules = rules]
                      ELSE st.defaults,
         shared |-> st.shared]

\* Config.add_auto_tag_rule, up to its save(): the rule found is enabled in
\* place, a rule not found is appended to the list object in place
ConfigAddAutoTagRule(st, source, tag) ==
    LET old == st.config.auto_tag_rules
        i == FirstRule(old, source, tag)
        rules == IF i # 0
                 THEN [old EXCEPT ![i].enabled = TRUE]
                 ELSE Append(old, [source |-> source, tag |-> tag, enabled |-> TRUE])
    IN  [config |-> [st.config EXCEPT !.auto_tag_rules = rules],
         defaults |-> IF "auto_tag_rules" \in st.shared
                      THEN [st.defaults EXCEPT !.auto_tag_rules = rules]
                      ELSE st.defaults,
         shared |-> st.shared]

\* Config.remove_auto_tag_rule, up to its save(): a new list is built and
\* assigned
ConfigRemoveAutoTagRule(st, source, tag) ==
    [config |-> [st.config EXCEPT !.auto_tag_rules =
                    SelectSeq(st.config.auto_tag_rules,
                              LAMBDA r : ~(r.source = source /\ r.tag = tag))],
     defaults |-> st.defaults,
     shared |-> st.shared \ {"auto_tag_rules"}]

\* Config.set, up to its save(), for keys that exist: a one-part key assigns
\* in self.config; a dotted key walks down the dicts and assigns in the last
\* one, which is DEFAULT_CONFIG's own when the top one is shared
ConfigSet(st, keys, value) ==
    IF Len(keys) = 1
    THEN [config |-> [st.config EXCEPT ![keys[1]] = value],
          defaults |-> st.defaults,
          shared |-> st.shared \ {keys[1]}]
    ELSE [config |-> [st.config EXCEPT ![keys[1]][keys[2]][keys[3]] = value],
          defaults |-> IF keys[1] \in st.shared
                       THEN [st.defaults EXCEPT ![keys[1]][keys[2]][keys[3]] = value]
                       ELSE st.defaults,
          shared |-> st.shared]

\* the state a Config method works on
ConfigState == [config |-> config, defaults |-> settings.defaults, shared |-> settings.shared]

\* a Config method has run on the instance and saved: json.dump(self.config)
Saved(op, key, st) ==
    /\ config' = st.config
    /\ settings' = [settings EXCEPT !.defaults = st.defaults, !.shared = st.shared,
                        !.file = FileJson(st.config), !.op = op, !.key = key,
                        !.found = "none", !.raised = "none", !.n = settings.n + 1]
    /\ UNCHANGED <<downloads, tags, file_tags, files, links, dirs, clock, inv, calls,
                   org, dbcall, auto_tag_rules, info>>

\* the rules callers add and remove
ConfigRules == {[source |-> "youtube", tag |-> "music"], [source |-> "youtube", tag |-> "youtube"]}

\* the (key, value) pairs callers set
ConfigSettings ==
    { [key |-> <<"organize_by_source">>, value |-> FALSE],
      [key |-> <<"organize_by_tag">>, value |-> FALSE],
      [key |-> <<"organize_by_date">>, value |-> FALSE],
      [key |-> <<"auto_tag_rules">>,
       value |-> <<[source |-> "youtube", tag |-> "music", enabled |-> FALSE]>>],
      [key |-> <<"source_formats", "youtube", "format">>, value |-> "worst"] }

CallAddAutoTagRule(source, tag) ==
    /\ settings.has_config
    /\ settings.n < MaxConfigCalls
    /\ Saved("add_auto_tag_rule", <<source, tag>>,
             ConfigAddAutoTagRule(ConfigState, source, tag))

CallRemoveAutoTagRule(source, tag) ==
    /\ settings.has_config
    /\ settings.n < MaxConfigCalls
    /\ Saved("remove_auto_tag_rule", <<source, tag>>,
             ConfigRemoveAutoTagRule(ConfigState, source, tag))

CallSet(keys, value) ==
    /\ settings.has_config
    /\ settings.n < MaxConfigCalls
    /\ Saved("set", keys, ConfigSet(ConfigState, keys, value))

\* Config(config_path): self.config = self._load_config().  With no file,
\* _load_config calls self.save() before self.config is assigned: save()
\* opens the file for writing, which creates it empty, and json.dump(
\* self.config, f) raises AttributeError out of the constructor.  With a file
\* that is not JSON the configuration is DEFAULT_CONFIG.copy().
Construct ==
    /\ settings.n < MaxConfigCalls
    /\ LET called == [settings EXCEPT !.op = "construct", !.key = <<>>,
                          !.found = settings.file.state, !.n = settings.n + 1]
       IN
       CASE settings.file.state = "missing" ->
              /\ config' = config
              /\ settings' = [called EXCEPT !.has_config = FALSE, !.file = FileInvalid,
                                  !.raised = "AttributeError"]
         [] settings.file.state = "invalid" ->
              /\ config' = settings.defaults
              /\ settings' = [called EXCEPT !.has_config = TRUE, !.shared = Mutable,
                                  !.raised = "none"]
         [] OTHER ->
              LET m == Merged(settings.defaults, settings.file.content[1]) IN
              /\ config' = m.config
              /\ settings' = [called EXCEPT !.has_config = TRUE, !.shared = m.shared,
                                  !.raised = "none"]
    /\ UNCHANGED <<downloads, tags, file_tags, files, links, dirs, clock, inv, calls,
                   org, dbcall, auto_tag_rules, info>>

\* the user deletes the config file, or leaves it unreadable
EnvConfigFile(file) ==
    /\ settings.nenv < MaxEnv
    /\ settings.file # file
    /\ settings' = [settings EXCEPT !.file = file, !.nenv = settings.nenv + 1]
    /\ UNCHANGED <<downloads, tags, file_tags, files, links, dirs, config, clock, inv,
                   calls, org, dbcall, auto_tag_rules, info>>

NextConfig ==
    \/ \E r \in ConfigRules : CallAddAutoTagRule(r.source, r.tag)
    \/ \E r \in ConfigRules : CallRemoveAutoTagRule(r.source, r.tag)
    \/ \E c \in ConfigSettings : CallSet(c.key, c.value)
    \/ Construct
    \/ \E f \in {FileMissing, FileInvalid} : EnvConfigFile(f)
    \/ \E r \in DbRules : DbAddAutoTagRule(r.source, r.tag)

SpecConfig == Init /\ [][NextConfig]_vars

\* the rules of a list that are not for (source, tag), in their order
OtherRules(rules, key) ==
    SelectSeq(rules, LAMBDA r : ~(r.source = key[1] /\ r.tag = key[2]))

\* the positions in a list of the rules for (source, tag)
RulesFor(rules, key) ==
    {i \in 1..Len(rules) : rules[i].source = key[1] /\ rules[i].tag = key[2]}

\* C24: rule maintenance is an idempotent upsert and delete.  After every
\* add_auto_tag_rule(source, tag) the list holds one rule for (source, tag),
\* enabled, also when it was there disabled; after every
\* remove_auto_tag_rule(source, tag) it holds none; neither changes the rules
\* of other pairs.  Database.add_auto_tag_rule adds one enabled row for a
\* pair that has none and changes no other row.
C24_RuleUpsertDelete ==
    [][/\ (settings'.n = settings.n + 1 /\ settings'.op = "add_auto_tag_rule") =>
             /\ Cardinality(RulesFor(config'.auto_tag_rules, settings'.key)) = 1
             /\ \A i \in RulesFor(config'.auto_tag_rules, settings'.key) :
                   config'.auto_tag_rules[i].enabled
             /\ OtherRules(config'.auto_tag_rules, settings'.key) =
                   OtherRules(config.auto_tag_rules, settings'.key)
       /\ (settings'.n = settings.n + 1 /\ settings'.op = "remove_auto_tag_rule") =>
             /\ RulesFor(config'.auto_tag_rules, settings'.key) = {}
             /\ OtherRules(config'.auto_tag_rules, settings'.key) =
                   OtherRules(config.auto_tag_rules, settings'.key)
       /\ auto_tag_rules \subseteq auto_tag_rules'
       /\ \A x \in auto_tag_rules', y \in auto_tag_rules' :
             (x.source = y.source /\ x.tag = y.tag) => (x = y /\ x.enabled)]_vars

\* add_auto_tag_rule was called for a rule that was there disabled, and for
\* the second time
C24_Witness ==
    /\ settings.op = "add_auto_tag_rule"
    /\ settings.key = <<"youtube", "music">>
    /\ settings.n = 3
    /\ config.auto_tag_rules = <<[source |-> "youtube", tag |-> "music", enabled |-> TRUE]>>

\* C28: constructing Config where no configuration file exists succeeds: the
\* file is created with the default configuration and the instance serves
\* the defaults.
C28_MissingFileGivesDefaults ==
    (settings.op = "construct" /\ settings.found = "missing") =>
        /\ settings.raised = "none"
        /\ settings.has_config
        /\ config = DEFAULT_CONFIG
        /\ settings.file = FileJson(DEFAULT_CONFIG)

\* C30: no sequence of add_auto_tag_rule, remove_auto_tag_rule and set calls
\* on a Config instance changes DEFAULT_CONFIG.
C30_DefaultsUnchanged ==
    settings.defaults = DEFAULT_CONFIG

-----------------------------------------------------------------------------
(* Source detection *)

DetectRequests ==
    { [url |-> "HTTPS://WWW.YouTube.COM/watch?v=ABC", custom_name |-> None,
       additional_tags |-> <<>>],
      [url |-> "https://example.org/video/1", custom_name |-> None,
       additional_tags |-> <<>>],
      [url |-> "https://example.org/v?ref=youtube.com", custom_name |-> "clip",
       additional_tags |-> <<>>],
      [url |-> "https://vimeo.com/123", custom_name |-> None,
       additional_tags |-> <<>>] }

NextDetect ==
    \E p \in Procs :
        \/ \E r \in DetectRequests : StartSeq(p, r.url, r.custom_name, r.additional_tags)
        \/ Step(p)

SpecDetect == Init /\ [][NextDetect]_vars

\* the position of the first occurrence of pat in text, 0 when there is none
Find(text, pat) ==
    LET hits == {i \in 1..(Len(text) - Len(pat) + 1) :
                    SubSeq(text, i, i + Len(pat) - 1) = pat}
    IN  IF hits = {} THEN 0 ELSE CHOOSE i \in hits : \A j \in hits : i <= j

\* the host of a URL: what stands between "://" and the next "/"
Host(text) ==
    LET rest == SubSeq(text, Find(text, <<":", "/", "/">>) + 3, Len(text))
        slash == Find(rest, <<"/">>)
    IN  IF slash = 0 THEN rest ELSE SubSeq(rest, 1, slash - 1)

\* host is the domain or one of its subdomains
OnDomain(host, domain) ==
    \/ host = domain
    \/ /\ Len(host) > Len(domain)
       /\ SubSeq(host, Len(host) - Len(domain), Len(host)) = <<".">> \o domain

\* the platform a domain belongs to
PlatformOf(domain) ==
    CASE domain \in {"youtube.com", "youtu.be"} -> "youtube"
      [] domain \in {"twitter.com", "x.com"} -> "twitter"
      [] domain = "instagram.com" -> "instagram"
      [] domain = "vimeo.com" -> "vimeo"
      [] domain = "tiktok.com" -> "tiktok"
      [] domain = "twitch.tv" -> "twitch"
      [] domain \in {"reddit.com", "redd.it"} -> "reddit"
      [] OTHER -> "unknown"

\* for every URL, the platforms whose domains its host is on
PlatformsOfHost ==
    [u \in Urls |->
        {PlatformOf(d) : d \in {x \in Domains : OnDomain(Lower(Host(Chars(u))), Chars(x))}}]

\* C26: _detect_source gives every URL one of the eight source names, a
\* platform's name exactly for the URLs on that platform's domains (in any
\* letter case) and 'unknown' for the URLs on every other domain; a download
\* of a URL classified 'unknown' goes on to the fetch.
C26_SourceIsPlatformOfDomain ==
    \A p \in Procs :
        inv[p].source # None =>
            /\ inv[p].source \in {"youtube", "twitter", "instagram", "vimeo", "tiktok",
                                  "twitch", "reddit", "unknown"}
            /\ inv[p].source = "unknown" => PlatformsOfHost[inv[p].url] = {}
            /\ inv[p].source # "unknown" => inv[p].source \in PlatformsOfHost[inv[p].url]
            /\ inv[p].pc # "idle"

-----------------------------------------------------------------------------
(* Downloads under a configuration whose organization flags the user turns  *)
(* off                                                                      *)

\* flags the user turns off in one run
MaxFlagSets == 1

FlagRequests ==
    { [url |-> "https://youtube.com/watch?v=abc", custom_name |-> None,
       additional_tags |-> <<"demo">>],
      [url |-> "https://youtu.be/abc", custom_name |-> None,
       additional_tags |-> <<>>],
      [url |-> "https://youtube.com/watch?v=xyz", custom_name |-> "clip",
       additional_tags |-> <<>>] }

FlagSettings ==
    {c \in ConfigSettings :
        c.key \in {<<"organize_by_source">>, <<"organize_by_tag">>, <<"organize_by_date">>}}

NextFlags ==
    \/ \E p \in Procs :
          \/ \E r \in FlagRequests : StartSeq(p, r.url, r.custom_name, r.additional_tags)
          \/ Step(p)
    \/ settings.n < MaxFlagSets /\ \E c \in FlagSettings : CallSet(c.key, c.value)

SpecFlags == Init /\ [][NextFlags]_vars

\* C25: the organize step of a download honors the flags of the
\* configuration.  For an axis whose flag is false no entry under its
\* namespace changes and the result map has no entry of the axis; for an axis
\* whose flag is true the link of the axis is made and reported.
C25_FlagsHonored ==
    [][\A p \in Procs :
        (inv[p].pc = "organize" /\ inv'[p].pc = "done") =>
            LET n == inv[p].filepath
                res == inv'[p].results
                untouched(ns, axis) ==
                    /\ \A l \in LinkPaths : l[1] = ns => links'[l] = links[l]
                    /\ \A k \in KeyDirs : k[1] = ns => dirs'[k] = dirs[k]
                    /\ \A i \in 1..Len(res) : res[i].axis # axis
                placed(link, axis, key) ==
                    /\ \E i \in 1..Len(res) :
                          res[i].axis = axis /\ res[i].key = key /\ res[i].ok
                    /\ links'[link].kind = "symlink"
                    /\ LinkTarget(link)' = DownloadFile(n)
            IN  /\ inv'[p].status = "success"
                /\ IF config.organize_by_source
                   THEN placed(<<"by-source", inv[p].source, n>>, "source", inv[p].source)
                   ELSE untouched("by-source", "source")
                /\ IF config.organize_by_tag
                   THEN \A i \in 1..Len(inv[p].tags) :
                            placed(<<"by-tag", inv[p].tags[i], n>>, "tags", inv[p].tags[i])
                   ELSE untouched("by-tag", "tags")
                /\ IF config.organize_by_date
                   THEN placed(<<"by-date", YearMonth(clock), n>>, "date", "date")
                   ELSE untouched("by-date", "date")]_vars

\* a download has succeeded with organize_by_tag off: it has its by-source
\* and by-date links and nothing under by-tag
C25_Witness ==
    \E p \in Procs :
        /\ inv[p].status = "success"
        /\ inv[p].tags = <<"youtube", "demo">>
        /\ ~config.organize_by_tag
        /\ config.organize_by_source
        /\ config.organize_by_date
        /\ Len(inv[p].results) = 2
        /\ \A l \in LinkPaths : l[1] = "by-tag" => links[l] = NoEntry
        /\ links[<<"by-source", "youtube", inv[p].filepath>>].kind = "symlink"
        /\ links[<<"by-date", "2024-03", inv[p].filepath>>].kind = "symlink"

-----------------------------------------------------------------------------
(* VideoDownloader.get_video_info *)

\* a get_video_info that lets yt-dlp download the file
InfoFiles_Download(url) ==
    [files EXCEPT ![OutputPath(url, None)] = RemoteContent(url)]

\* the downloads directory after ydl.extract_info(url, download=False)
InfoFiles(url) == files

\* get_video_info(url): the metadata dict, or None when yt-dlp raises
GetVideoInfo(url) ==
    /\ files' = InfoFiles(url)
    /\ \E ok \in BOOLEAN :
         info' = IF ok
                 THEN <<[url |-> url, title |-> RemoteTitle(url)]>>
                 ELSE <<[url |-> url, title |-> None]>>
    /\ UNCHANGED <<downloads, tags, file_tags, links, dirs, config, clock, inv, calls,
                   org, dbcall, auto_tag_rules, settings>>

NextInfo ==
    \/ NextDupTag
    \/ \E r \in TagRequests : GetVideoInfo(r.url)

SpecInfo == Init /\ [][NextInfo]_vars

\* C27: get_video_info is read-only: a call, whether it returns the metadata
\* or None, leaves the downloads directory, the records, tags, associations
\* and rules of the store, and the forest as they were.
C27_InfoIsReadOnly ==
    [][info' # info =>
        <<files, downloads, tags, file_tags, auto_tag_rules, links, dirs>>' =
            <<files, downloads, tags, file_tags, auto_tag_rules, links, dirs>>]_vars

\* get_video_info has returned None for a URL that is not in the store, next
\* to a record and its file
C27_Witness ==
    /\ info = <<[url |-> "https://vimeo.com/123", title |-> None]>>
    /\ files["reupload.mp4"] = Absent
    /\ files["video.mp4"] # Absent
    /\ Cardinality(downloads) = 1
    /\ \A r \in downloads : r.url = "https://youtube.com/watch?v=abc"

-----------------------------------------------------------------------------
(* Files left in the downloads directory *)

\* C29: every file in the downloads directory is the filepath of some record
\* or the file of an invocation still in progress; an invocation that ended
\* 'error' or 'duplicate' has left no file behind that no record owns.
C29_NoOrphanFiles ==
    \A n \in FileNames :
        files[n] # Absent =>
            \/ \E r \in downloads : r.filepath = n
            \/ \E p \in Procs : inv[p].pc \notin {"idle", "done"} /\ inv[p].filepath = n

====
